---- MODULE Spec2Model ----
(***************************************************************************)
(* Model of src/data/scraping.py: the URL collector, the batch/worker      *)
(* scheduler of scrape_apartments, and the field extractor                 *)
(* get_listing_details.                                                    *)
(*                                                                         *)
(* Texts (URLs, element texts, labels, file lines) are sequences of        *)
(* one-character strings, so that concatenation, strip() and the trailing  *)
(* newline of a file line are computed and not assumed.                    *)
(***************************************************************************)
EXTENDS Naturals, Integers, Sequences, FiniteSets, TLC

\* ------------------------------------------------------------------ bounds
\* Largest num_pages argument.
MaxPages == 2
\* Largest number of listing links on one result page.
MaxPerPage == 2
\* Largest num_workers argument.
MaxWorkers == 2
\* URLs per worker and batch. The source uses 1000 (batch_size =
\* num_workers * 1000); the model scales it down so that runs with several
\* batches are reachable.
UrlsPerWorker == 2
\* Last value of the one-second wall clock.
MaxTime == 1
\* Largest batch length and worker count of the chunking specification.
MaxBatchLen == 24
MaxChunkWorkers == 6
\* Largest number of divs on a page of the label/value specification.
MaxContainers == 2

\* ------------------------------------------------------------------ texts
NL == "\n"
SP == " "
IsSpace(c) == c \in {SP, NL}

RECURSIVE LStrip(_)
LStrip(t) == IF t # <<>> /\ IsSpace(Head(t)) THEN LStrip(Tail(t)) ELSE t

RECURSIVE RStrip(_)
RStrip(t) ==
    IF t # <<>> /\ IsSpace(t[Len(t)]) THEN RStrip(SubSeq(t, 1, Len(t) - 1)) ELSE t

\* str.strip()
Strip(t) == RStrip(LStrip(t))

Range(s) == {s[i] : i \in DOMAIN s}

RECURSIVE Flatten(_)
Flatten(ss) == IF ss = <<>> THEN <<>> ELSE Head(ss) \o Flatten(Tail(ss))

\* sep.join(parts)
RECURSIVE Join(_, _)
Join(sep, parts) ==
    IF parts = <<>> THEN <<>>
    ELSE IF Len(parts) = 1 THEN parts[1]
    ELSE parts[1] \o sep \o Join(sep, Tail(parts))

\* Python's None, kept a tuple so that it compares with texts.
None == <<"None">>

\* d[k] = v on a dict
Put(d, k, v) == [x \in (DOMAIN d) \cup {k} |-> IF x = k THEN v ELSE d[x]]

\* d.get(k)
Get(d, k) == IF k \in DOMAIN d THEN d[k] ELSE None

\* math.ceil(a / b) for a >= 0, b >= 1
Ceil(a, b) == (a + b - 1) \div b

Min(a, b) == IF a <= b THEN a ELSE b

\* All orders in which list(set(...)) may enumerate the set S.
Perms(S) ==
    {p \in [1..Cardinality(S) -> S] : \A i, j \in 1..Cardinality(S) : p[i] = p[j] => i = j}

\* Sequences over S of length at most n.
SeqUpTo(S, n) == UNION {[1..k -> S] : k \in 0..n}

\* ------------------------------------------------------------ result pages
\* The hrefs a result page may link to.
Hrefs == {<<"a">>, <<"b">>, <<"c">>}

\* 'https://www.otodom.pl/', abbreviated
BaseListingUrl == <<"h", "/">>

\* What requests.get + BeautifulSoup give for one result page: an error, or
\* the hrefs of the listing-item links in document order.
ResultPages ==
    {[ok |-> FALSE, links |-> <<>>]} \cup
    {[ok |-> TRUE, links |-> l] : l \in SeqUpTo(Hrefs, MaxPerPage)}

get_listings_page(p) ==
    IF p.ok THEN [i \in DOMAIN p.links |-> BaseListingUrl \o p.links[i]] ELSE <<>>

\* ----------------------------------------------------------- listing pages
\* A parsed listing page: ok = FALSE stands for any exception of the fetch
\* or the parse; elems are the elements with a class, in document order;
\* containers are the divs, each with its class and its <p> children; a
\* paragraph has its text and the texts of its value spans.
ContainerClass == "css-t7cajz e15n0fyo1"

\* soup.find(class_=selector): the index of the first match, 0 for None
find(elems, selector) ==
    IF \E i \in DOMAIN elems : elems[i].class = selector
    THEN CHOOSE k \in DOMAIN elems :
             /\ elems[k].class = selector
             /\ \A m \in 1..(k - 1) : elems[m].class # selector
    ELSE 0

find_all(containers, class) == SelectSeq(containers, LAMBDA c : c.class = class)

extract_spans_from_p(p) == [i \in DOMAIN p.spans |-> Strip(p.spans[i])]

\* Variant: a block of more than two paragraphs is read as well.
RECURSIVE LabelLoopAtLeastTwo(_, _, _)
LabelLoopAtLeastTwo(containers, labels_to_find, results) ==
    IF containers = <<>> THEN results
    ELSE LET paragraphs == Head(containers).paragraphs
             label == Strip(paragraphs[1].text)
             spans == paragraphs[2].spans
             value == IF spans # <<>>
                      THEN Join(<<";", SP>>, [i \in DOMAIN spans |-> Strip(spans[i])])
                      ELSE Strip(paragraphs[2].text)
         IN  IF Len(paragraphs) >= 2 /\ label \in Range(labels_to_find)
             THEN LabelLoopAtLeastTwo(Tail(containers), labels_to_find,
                                      Put(results, label, value))
             ELSE LabelLoopAtLeastTwo(Tail(containers), labels_to_find, results)

RECURSIVE LabelLoop(_, _, _)
LabelLoop(containers, labels_to_find, results) ==
    IF containers = <<>> THEN results
    ELSE LET paragraphs == Head(containers).paragraphs
             label == Strip(paragraphs[1].text)
             spans == paragraphs[2].spans
             value == IF spans # <<>>
                      THEN Join(<<";", SP>>, [i \in DOMAIN spans |-> Strip(spans[i])])
                      ELSE Strip(paragraphs[2].text)
         IN  IF Len(paragraphs) = 2 /\ label \in Range(labels_to_find)
             THEN LabelLoop(Tail(containers), labels_to_find, Put(results, label, value))
             ELSE LabelLoop(Tail(containers), labels_to_find, results)

extract_label_value_pairs(soup, labels_to_find, container_class) ==
    LabelLoop(find_all(soup.containers, container_class), labels_to_find, <<>>)

\* Variant: a field whose element is missing is left out of the record.
RECURSIVE DirectLoopSkippingMissing(_, _, _)
DirectLoopSkippingMissing(soup, mapping, details) ==
    IF mapping = <<>> THEN details
    ELSE LET field == Head(mapping)[1]
             element == find(soup.elems, Head(mapping)[2])
         IN  DirectLoopSkippingMissing(soup, Tail(mapping),
                 IF element # 0
                 THEN Put(details, field, Strip(soup.elems[element].text))
                 ELSE details)

\* for field, selector in div_class_mapping.items(): details[field] = ...
RECURSIVE DirectLoop(_, _, _)
DirectLoop(soup, mapping, details) ==
    IF mapping = <<>> THEN details
    ELSE LET field == Head(mapping)[1]
             element == find(soup.elems, Head(mapping)[2])
         IN  DirectLoop(soup, Tail(mapping),
                 Put(details, field,
                     IF element # 0 THEN Strip(soup.elems[element].text) ELSE None))

\* for field, label in label_mapping.items(): details[field] = label_values.get(label)
RECURSIVE MapLabelsLoop(_, _, _)
MapLabelsLoop(label_values, mapping, details) ==
    IF mapping = <<>> THEN details
    ELSE MapLabelsLoop(label_values, Tail(mapping),
             Put(details, Head(mapping)[1], Get(label_values, Head(mapping)[2])))

\* A mapping is the sequence of its (field, selector-or-label) items in
\* insertion order. soup is the page that requests.get(listing_url) gave.
get_listing_details(listing_url, soup, div_class_mapping, label_mapping) ==
    IF ~soup.ok THEN <<>>
    ELSE LET d0 == [k \in {"url"} |-> listing_url]
             d1 == DirectLoop(soup, div_class_mapping, d0)
             label_values ==
                 extract_label_value_pairs(
                     soup, [i \in DOMAIN label_mapping |-> label_mapping[i][2]],
                     ContainerClass)
         IN  MapLabelsLoop(label_values, label_mapping, d1)

\* ------------------------------------------------------- the run's inputs
\* DIV_CLASS_MAPPING and LABEL_MAPPING of __main__, first entries
DIV_CLASS_MAPPING == << <<"title", "css-wqvm7k ef3kcx01">>, <<"m2", "css-1ftqasz">> >>
LABEL_MAPPING == << <<"heating", <<"O", ":">> >>, <<"deposit", <<"K">> >> >>

ErrorPage == [ok |-> FALSE, elems |-> <<>>, containers |-> <<>>]

\* A listing page with a title, no area, and a heating block of two spans.
SamplePage ==
    [ok |-> TRUE,
     elems |-> << [class |-> "css-wqvm7k ef3kcx01", text |-> <<SP, "T", NL>>] >>,
     containers |->
         << [class |-> ContainerClass,
             paragraphs |-> << [text |-> <<"O", ":", SP>>, spans |-> <<>>],
                               [text |-> <<"G", "E">>, spans |-> << <<"G">>, <<SP, "E">> >>] >>] >>]

\* What a listing fetch may give during a run.
RunPages == {ErrorPage, SamplePage}

AllUrls == {BaseListingUrl \o h : h \in Hrefs}

\* ------------------------------------------------------------------ state
VARIABLES
    pc,               \* where scrape_apartments is
    num_pages,        \* argument
    num_workers,      \* argument
    site,             \* what the site answers for result page 1, 2, ...
    page,             \* loop variable of the collection loop
    all_urls,         \* list
    unique_urls,      \* list(set(all_urls))
    total_urls,
    dir_exists,       \* output_dir has been created
    urls_file,        \* lines of listing_urls.txt, each with its newline
    batch_size,
    total_batches,
    urls_processed,
    listings_scraped,
    counter_lock,     \* 0 when free, else the task holding it
    batch_num,        \* loop variable of the batch loop (0-based)
    batch_urls,
    url_chunks,
    tasks,            \* the process_urls calls of the current pool, by chunk
    files,            \* CSV files of the run directory: name -> rows
    now,              \* wall clock, in seconds
    \* history of the run, read by the properties only
    returned_urls,    \* URLs that get_listings_page has returned
    fetch_count,      \* per URL, the listing fetches issued
    failed_urls,      \* URLs whose listing fetch or parse failed
    records_returned, \* non-empty records get_listing_details has returned
    nonempty_chunks,  \* chunks that ended with a non-empty scraped_listings
    fs_error,         \* a filesystem error has been raised
    batch_log,        \* the batches read, in order
    call,             \* argument of the function under test (function specs)
    result            \* its return value

vars ==
    <<pc, num_pages, num_workers, site, page, all_urls, unique_urls, total_urls, dir_exists,
      urls_file, batch_size, total_batches, urls_processed, listings_scraped,
      counter_lock, batch_num, batch_urls, url_chunks, tasks, files, now,
      returned_urls, fetch_count, failed_urls, records_returned, nonempty_chunks,
      fs_error, batch_log, call, result>>

argVars == <<num_pages, num_workers, site>>
collectVars == <<page, all_urls, unique_urls, total_urls, returned_urls>>
fsVars == <<dir_exists, urls_file, files, fs_error>>
schedVars == <<batch_size, total_batches, urls_processed, batch_num, batch_urls,
               url_chunks, batch_log>>
workVars == <<listings_scraped, counter_lock, tasks, fetch_count, failed_urls,
              records_returned, nonempty_chunks>>
fnVars == <<call, result>>

NoCall == [fn |-> "none"]

\* The state after the first assignment of scrape_apartments (line 107) and
\* before any file exists.
Start ==
    /\ page = 1
    /\ all_urls = <<>>
    /\ unique_urls = <<>>
    /\ total_urls = 0
    /\ dir_exists = FALSE
    /\ urls_file = <<>>
    /\ batch_size = 0
    /\ total_batches = 0
    /\ urls_processed = 0
    /\ listings_scraped = 0
    /\ counter_lock = 0
    /\ batch_num = 0
    /\ batch_urls = <<>>
    /\ url_chunks = <<>>
    /\ tasks = <<>>
    /\ files = <<>>
    /\ now = 0
    /\ returned_urls = {}
    /\ fetch_count = [u \in AllUrls |-> 0]
    /\ failed_urls = {}
    /\ records_returned = 0
    /\ nonempty_chunks = 0
    /\ fs_error = FALSE
    /\ batch_log = <<>>
    /\ result = <<>>

\* Sites of the whole-run specification: two pages sharing a listing, a
\* failing page before a page of one listing, one page of two listings, one
\* page without listings.
OkPage(links) == [ok |-> TRUE, links |-> links]
RunSites ==
    { << OkPage(<< <<"a">>, <<"b">> >>), OkPage(<< <<"b">>, <<"c">> >>) >>,
      << [ok |-> FALSE, links |-> <<>>], OkPage(<< <<"a">> >>) >>,
      << OkPage(<< <<"a">>, <<"b">> >>) >>,
      << OkPage(<<>>) >> }

Init ==
    /\ site \in RunSites
    /\ num_pages = Len(site)
    /\ num_workers \in 1..MaxWorkers
    /\ pc = "collect"
    /\ call = NoCall
    /\ Start

\* ---------------------------------------------------------- URL collector
\* One iteration of the page loop (lines 111-117); leaving the loop after
\* the last page.
CollectPage ==
    /\ pc = "collect"
    /\ page <= num_pages
    /\ LET listing_urls == get_listings_page(site[page])
       IN  /\ all_urls' = all_urls \o listing_urls
           /\ returned_urls' = returned_urls \cup Range(listing_urls)
    /\ page' = page + 1
    /\ pc' = IF page + 1 > num_pages THEN "dedup" ELSE "collect"
    /\ UNCHANGED <<argVars, unique_urls, total_urls, fsVars, schedVars, workVars, now, fnVars>>

\* Variant: the list is persisted without removing duplicates.
ListOfSetKeepingDuplicates(l) == {l}

\* list(set(all_urls)): the distinct elements, in any order
ListOfSet(l) == Perms(Range(l))

\* lines 120-121
Dedup ==
    /\ pc = "dedup"
    /\ \E u \in ListOfSet(all_urls) :
        /\ unique_urls' = u
        /\ total_urls' = Len(u)
    /\ pc' = "mkdir"
    /\ UNCHANGED <<argVars, page, all_urls, returned_urls, fsVars, schedVars, workVars, now, fnVars>>

\* os.makedirs(output_dir, exist_ok=True), line 128: succeeds or raises
MakeDirs ==
    /\ pc = "mkdir"
    /\ \E ok \in BOOLEAN :
        IF ok
        THEN /\ dir_exists' = TRUE
             /\ pc' = "write_urls"
             /\ UNCHANGED fs_error
        ELSE /\ fs_error' = TRUE
             /\ pc' = "crashed"
             /\ UNCHANGED dir_exists
    /\ UNCHANGED <<argVars, collectVars, urls_file, files, schedVars, workVars, now, fnVars>>

\* f.write(url + '\n')
FileLine(url) == url \o <<NL>>

\* Variant: the scheduler starts while the last line is still unwritten.
WriteUrlsFileUnflushed ==
    /\ pc = "write_urls"
    /\ urls_file' = [i \in 1..(Len(unique_urls) - 1) |-> FileLine(unique_urls[i])]
    /\ pc' = "setup"
    /\ UNCHANGED <<argVars, collectVars, dir_exists, files, fs_error, schedVars, workVars,
                   now, fnVars>>

\* lines 131-135: all lines are written, or an error stops the writing
\* after some of them.
WriteUrlsFile ==
    /\ pc = "write_urls"
    /\ \E k \in 0..Len(unique_urls) :
        /\ urls_file' = [i \in 1..k |-> FileLine(unique_urls[i])]
        /\ IF k = Len(unique_urls)
           THEN \E ok \in BOOLEAN :
                    /\ fs_error' = ~ok
                    /\ pc' = IF ok THEN "setup" ELSE "crashed"
           ELSE /\ fs_error' = TRUE
                /\ pc' = "crashed"
    /\ UNCHANGED <<argVars, collectVars, dir_exists, files, schedVars, workVars, now, fnVars>>

\* lines 137-141
Setup ==
    /\ pc = "setup"
    /\ batch_size' = num_workers * UrlsPerWorker
    /\ total_batches' = Ceil(total_urls, num_workers * UrlsPerWorker)
    /\ urls_processed' = 0
    /\ listings_scraped' = 0
    /\ counter_lock' = 0
    /\ batch_num' = 0
    /\ pc' = "loop"
    /\ UNCHANGED <<argVars, collectVars, fsVars, batch_urls, url_chunks, batch_log, tasks,
                   fetch_count, failed_urls, records_returned, nonempty_chunks, now, fnVars>>

\* ------------------------------------------------------- batch scheduler
\* Variant: the lines already processed are not skipped.
ReadLinesFromStart(f, skip, n) == [i \in 1..n |-> Strip(f[i])]

\* Lines 145-149: skip `skip` lines of the file, then read and strip n lines.
ReadLines(f, skip, n) == [i \in 1..n |-> Strip(f[skip + i])]

\* Variant: the counter of URLs read is left as it was.
AdvanceProcessedForgotten(processed, batch) == processed

\* Variant: the count of processed URLs restarts with each batch.
AdvanceProcessedRestarted(processed, batch) == Len(batch)

\* Line 150
AdvanceProcessed(processed, batch) == processed + Len(batch)

\* Variant: a last, shorter slice is left out.
ChunksDroppingTail(batch, per) ==
    [k \in 1..(Len(batch) \div per) |-> SubSeq(batch, (k - 1) * per + 1, k * per)]

\* Line 155: [batch[i:i + per] for i in range(0, len(batch), per)], per >= 1
Chunks(batch, per) ==
    [k \in 1..Ceil(Len(batch), per) |->
        SubSeq(batch, (k - 1) * per + 1, Min(k * per, Len(batch)))]

\* Variant: the chunk size is rounded down.
UrlChunksRoundedDown(batch, workers) ==
    Chunks(batch, IF Len(batch) \div workers = 0 THEN 1 ELSE Len(batch) \div workers)

\* Lines 154-155
UrlChunks(batch, workers) == Chunks(batch, Ceil(Len(batch), workers))

NewTask == [pc |-> "queued", idx |-> 1, scraped_listings |-> <<>>, reg |-> 0]

Active(t) == t.pc \notin {"queued", "finished", "raised"}

\* Variant: the pool is left without waiting for its calls.
PoolIdleNotAwaited == TRUE

\* The pool's shutdown(wait=True) at the end of the with block (line 185)
\* returns when every submitted call has returned or raised.
PoolIdle == \A c \in DOMAIN tasks : tasks[c].pc \in {"finished", "raised"}

\* One iteration of the batch loop up to the submission of the chunks to a
\* new pool (lines 143-155, 185-186).
ReadBatch ==
    /\ pc = "loop"
    /\ batch_num < total_batches
    /\ LET n == Min(batch_size, total_urls - urls_processed)
       IN  IF urls_processed + n > Len(urls_file)
           THEN \* next(f) past the end of the file raises
                /\ pc' = "crashed"
                /\ UNCHANGED <<urls_processed, batch_urls, url_chunks, batch_log, tasks>>
           ELSE LET batch == ReadLines(urls_file, urls_processed, n)
                    chunks == UrlChunks(batch, num_workers)
                IN  /\ batch_urls' = batch
                    /\ urls_processed' = AdvanceProcessed(urls_processed, batch)
                    /\ url_chunks' = chunks
                    /\ batch_log' = Append(batch_log, batch)
                    /\ tasks' = [c \in DOMAIN chunks |-> NewTask]
                    /\ pc' = "pool"
    /\ UNCHANGED <<argVars, collectVars, fsVars, batch_size, total_batches, batch_num,
                   listings_scraped, counter_lock, fetch_count, failed_urls,
                   records_returned, nonempty_chunks, now, fnVars>>

\* Leaving the with block (line 185) and going to the next iteration.
PoolShutdown ==
    /\ pc = "pool"
    /\ PoolIdle
    /\ batch_num' = batch_num + 1
    /\ pc' = "loop"
    /\ UNCHANGED <<argVars, collectVars, fsVars, batch_size, total_batches, urls_processed,
                   batch_urls, url_chunks, batch_log, workVars, now, fnVars>>

\* The batch loop is over: the final summary (line 188).
Finish ==
    /\ pc = "loop"
    /\ batch_num >= total_batches
    /\ pc' = "done"
    /\ UNCHANGED <<argVars, collectVars, fsVars, schedVars, workVars, now, fnVars>>

\* ------------------------------------------------------------ process_urls
SetTask(c, t) == tasks' = [tasks EXCEPT ![c] = t]

\* A pool thread takes the call from the queue; the pool has num_workers
\* threads (line 185).
StartTask(c) ==
    /\ tasks[c].pc = "queued"
    /\ Cardinality({d \in DOMAIN tasks : Active(tasks[d])}) < num_workers
    /\ SetTask(c, [tasks[c] EXCEPT !.pc = IF url_chunks[c] = <<>> THEN "flush" ELSE "fetch"])
    /\ UNCHANGED <<pc, argVars, collectVars, fsVars, schedVars, listings_scraped, counter_lock,
                   fetch_count, failed_urls, records_returned, nonempty_chunks, now, fnVars>>

\* Variant: an empty record ends the loop over the chunk.
NextAfterFetchBreaking(details) == IF details # <<>> THEN "acquire" ELSE "flush"

\* Variant: the record is counted whether it is empty or not.
NextAfterFetchCounting(details) == "acquire"

\* Lines 165-168: a non-empty record goes on to the counter update, an
\* empty one straight to the progress check.
NextAfterFetch(details) == IF details # <<>> THEN "acquire" ELSE "report"

\* Lines 164-166
Fetch(c) ==
    /\ tasks[c].pc = "fetch"
    /\ LET url == url_chunks[c][tasks[c].idx]
       IN  \E soup \in RunPages :
            LET details == get_listing_details(url, soup, DIV_CLASS_MAPPING, LABEL_MAPPING)
            IN  /\ fetch_count' = [fetch_count EXCEPT ![url] = @ + 1]
                /\ failed_urls' = IF details = <<>> THEN failed_urls \cup {url} ELSE failed_urls
                /\ records_returned' = records_returned + (IF details # <<>> THEN 1 ELSE 0)
                /\ SetTask(c, [tasks[c] EXCEPT
                        !.scraped_listings = IF details # <<>> THEN Append(@, details) ELSE @,
                        !.pc = NextAfterFetch(details)])
    /\ UNCHANGED <<pc, argVars, collectVars, fsVars, schedVars, listings_scraped, counter_lock,
                   nonempty_chunks, now, fnVars>>

\* Variant: the counter is updated without waiting for the lock.
LockFreeIgnored == TRUE

\* with counter_lock: entry (line 167)
LockFree == counter_lock = 0

Acquire(c) ==
    /\ tasks[c].pc = "acquire"
    /\ LockFree
    /\ counter_lock' = c
    /\ SetTask(c, [tasks[c] EXCEPT !.pc = "load"])
    /\ UNCHANGED <<pc, argVars, collectVars, fsVars, schedVars, listings_scraped,
                   fetch_count, failed_urls, records_returned, nonempty_chunks, now, fnVars>>

\* listings_scraped += 1 (line 168) reads the counter ...
Load(c) ==
    /\ tasks[c].pc = "load"
    /\ SetTask(c, [tasks[c] EXCEPT !.reg = listings_scraped, !.pc = "store"])
    /\ UNCHANGED <<pc, argVars, collectVars, fsVars, schedVars, listings_scraped, counter_lock,
                   fetch_count, failed_urls, records_returned, nonempty_chunks, now, fnVars>>

\* ... and writes it back
Store(c) ==
    /\ tasks[c].pc = "store"
    /\ listings_scraped' = tasks[c].reg + 1
    /\ SetTask(c, [tasks[c] EXCEPT !.pc = "release"])
    /\ UNCHANGED <<pc, argVars, collectVars, fsVars, schedVars, counter_lock,
                   fetch_count, failed_urls, records_returned, nonempty_chunks, now, fnVars>>

\* Variant: the lock is kept when the with block is left.
ReleaseForgotten(c) ==
    /\ tasks[c].pc = "release"
    /\ SetTask(c, [tasks[c] EXCEPT !.pc = "report"])
    /\ UNCHANGED <<pc, argVars, collectVars, fsVars, schedVars, listings_scraped, counter_lock,
                   fetch_count, failed_urls, records_returned, nonempty_chunks, now, fnVars>>

\* with counter_lock: exit
Release(c) ==
    /\ tasks[c].pc = "release"
    /\ counter_lock' = 0
    /\ SetTask(c, [tasks[c] EXCEPT !.pc = "report"])
    /\ UNCHANGED <<pc, argVars, collectVars, fsVars, schedVars, listings_scraped,
                   fetch_count, failed_urls, records_returned, nonempty_chunks, now, fnVars>>

\* Lines 170-171: ten seconds have passed since the last report, or not.
ReportNotDue(c) ==
    /\ tasks[c].pc = "report"
    /\ SetTask(c, [tasks[c] EXCEPT !.pc = "sleep"])
    /\ UNCHANGED <<pc, argVars, collectVars, fsVars, schedVars, listings_scraped, counter_lock,
                   fetch_count, failed_urls, records_returned, nonempty_chunks, now, fnVars>>

\* Line 172
ReportAcquire(c) ==
    /\ tasks[c].pc = "report"
    /\ LockFree
    /\ counter_lock' = c
    /\ SetTask(c, [tasks[c] EXCEPT !.pc = "print"])
    /\ UNCHANGED <<pc, argVars, collectVars, fsVars, schedVars, listings_scraped,
                   fetch_count, failed_urls, records_returned, nonempty_chunks, now, fnVars>>

\* Lines 173-174: the progress line is printed and the lock released.
ReportPrint(c) ==
    /\ tasks[c].pc = "print"
    /\ counter_lock' = 0
    /\ SetTask(c, [tasks[c] EXCEPT !.reg = listings_scraped, !.pc = "sleep"])
    /\ UNCHANGED <<pc, argVars, collectVars, fsVars, schedVars, listings_scraped,
                   fetch_count, failed_urls, records_returned, nonempty_chunks, now, fnVars>>

\* Line 175 and the next iteration of the for loop (line 163)
Sleep(c) ==
    /\ tasks[c].pc = "sleep"
    /\ SetTask(c, [tasks[c] EXCEPT
            !.idx = @ + 1,
            !.pc = IF tasks[c].idx + 1 > Len(url_chunks[c]) THEN "flush" ELSE "fetch"])
    /\ UNCHANGED <<pc, argVars, collectVars, fsVars, schedVars, listings_scraped, counter_lock,
                   fetch_count, failed_urls, records_returned, nonempty_chunks, now, fnVars>>

\* Lines 180-181: batch number and the clock's second
OutputFile == <<batch_num + 1, now>>

\* Lines 178-182: nothing to write; or the rows are written to the file of
\* that name, replacing a file already there; or to_csv raises, having
\* created no file or an empty one. An exception ends the call and stays in
\* its future: line 186 never reads the results of executor.map.
Flush(c) ==
    /\ tasks[c].pc = "flush"
    /\ IF tasks[c].scraped_listings = <<>>
       THEN /\ SetTask(c, [tasks[c] EXCEPT !.pc = "finished"])
            /\ UNCHANGED <<files, fs_error, nonempty_chunks>>
       ELSE /\ nonempty_chunks' = nonempty_chunks + 1
            /\ \E outcome \in {"written", "error", "error_empty_file"} :
                /\ files' = IF outcome = "written"
                            THEN Put(files, OutputFile, tasks[c].scraped_listings)
                            ELSE IF outcome = "error_empty_file"
                            THEN Put(files, OutputFile, <<>>)
                            ELSE files
                /\ fs_error' = (fs_error \/ outcome # "written")
                /\ SetTask(c, [tasks[c] EXCEPT
                        !.pc = IF outcome = "written" THEN "finished" ELSE "raised"])
    /\ UNCHANGED <<pc, argVars, collectVars, dir_exists, urls_file, schedVars,
                   listings_scraped, counter_lock, fetch_count, failed_urls,
                   records_returned, now, fnVars>>

\* A second passes.
Tick ==
    /\ pc \notin {"done", "crashed"}
    /\ now < MaxTime
    /\ now' = now + 1
    /\ UNCHANGED <<pc, argVars, collectVars, fsVars, schedVars, workVars, fnVars>>

TaskStep(c) ==
    \/ StartTask(c)
    \/ Fetch(c)
    \/ Acquire(c)
    \/ Load(c)
    \/ Store(c)
    \/ Release(c)
    \/ ReportNotDue(c)
    \/ ReportAcquire(c)
    \/ ReportPrint(c)
    \/ Sleep(c)
    \/ Flush(c)

Next ==
    \/ CollectPage
    \/ Dedup
    \/ MakeDirs
    \/ WriteUrlsFile
    \/ Setup
    \/ ReadBatch
    \/ PoolShutdown
    \/ Finish
    \/ Tick
    \/ \E c \in DOMAIN tasks : TaskStep(c)

Spec == Init /\ [][Next]_vars

\* The main thread of scrape_apartments: it is never suspended for good.
MainStep ==
    \/ CollectPage
    \/ Dedup
    \/ MakeDirs
    \/ WriteUrlsFile
    \/ Setup
    \/ ReadBatch
    \/ PoolShutdown
    \/ Finish

\* The pool thread running the call of chunk c.
WorkerStep(c) == c \in DOMAIN tasks /\ TaskStep(c)

\* The steps of the threads. The clock is left at its first second: it is
\* read only for the name of a CSV file (line 180), which no thread waits
\* for.
FairNext == MainStep \/ \E c \in DOMAIN tasks : TaskStep(c)

\* The whole run under a fair scheduler: a thread that can take its next
\* step takes it in the end; requests.get returns or raises (timeout=10,
\* lines 19 and 73), so a fetch is a step like any other.
FairSpec ==
    /\ Init
    /\ [][FairNext]_vars
    /\ WF_vars(MainStep)
    /\ \A c \in 1..MaxWorkers : WF_vars(WorkerStep(c))

\* ------------------------------------------- the URL collector on its own
\* Every site of at most MaxPages result pages.
CollectInit ==
    /\ num_pages \in 1..MaxPages
    /\ site \in [1..num_pages -> ResultPages]
    /\ num_workers = 1
    /\ pc = "collect"
    /\ call = NoCall
    /\ Start

CollectNext ==
    \/ CollectPage
    \/ Dedup
    \/ MakeDirs
    \/ WriteUrlsFile

SpecCollect == CollectInit /\ [][CollectNext]_vars

\* ----------------------------------------------- the chunking on its own
ChunksInit ==
    /\ site = <<>>
    /\ num_pages = 0
    /\ num_workers = 1
    /\ Start
    /\ pc = "call"
    /\ \E len \in 1..MaxBatchLen, workers \in 1..MaxChunkWorkers :
        call = [fn |-> "UrlChunks", batch |-> [i \in 1..len |-> i], workers |-> workers]

CallUrlChunks ==
    /\ pc = "call"
    /\ call.fn = "UrlChunks"
    /\ result' = UrlChunks(call.batch, call.workers)
    /\ pc' = "return"
    /\ UNCHANGED <<argVars, collectVars, fsVars, schedVars, workVars, now, call>>

SpecChunks == ChunksInit /\ [][CallUrlChunks]_vars

\* ------------------------------------------ get_listing_details on its own
\* A page without any of the elements looked for, and a page whose blocks
\* are one known label, one block of a single paragraph and one unknown
\* label.
BarePage == [ok |-> TRUE, elems |-> <<>>, containers |-> <<>>]
BlocksPage ==
    [ok |-> TRUE,
     elems |-> << [class |-> "css-1ftqasz", text |-> <<"5", SP>>],
                  [class |-> "css-1ftqasz", text |-> <<"6">>] >>,
     containers |->
         << [class |-> ContainerClass,
             paragraphs |-> << [text |-> <<"K">>, spans |-> <<>>],
                               [text |-> <<SP, "9">>, spans |-> <<>>] >>],
            [class |-> ContainerClass,
             paragraphs |-> << [text |-> <<"O", ":">>, spans |-> <<>>] >>],
            [class |-> ContainerClass,
             paragraphs |-> << [text |-> <<"X">>, spans |-> <<>>],
                               [text |-> <<"1">>, spans |-> <<>>] >>] >>]

DetailPages == {ErrorPage, SamplePage, BarePage, BlocksPage}

DivMappings ==
    { <<>>, DIV_CLASS_MAPPING, << <<"url", "css-1ftqasz">> >>,
      << <<"m2", "css-1ftqasz">>, <<"url", "css-none">> >> }

LabelMappings ==
    { <<>>, LABEL_MAPPING, << <<"url", <<"K">> >> >>, << <<"m2", <<"X">> >> >> }

DetailsInit ==
    /\ site = <<>>
    /\ num_pages = 0
    /\ num_workers = 1
    /\ Start
    /\ pc = "call"
    /\ \E u \in AllUrls, soup \in DetailPages, d \in DivMappings, l \in LabelMappings :
        call = [fn |-> "get_listing_details", listing_url |-> u, soup |-> soup,
                div_class_mapping |-> d, label_mapping |-> l]

CallGetListingDetails ==
    /\ pc = "call"
    /\ call.fn = "get_listing_details"
    /\ result' = get_listing_details(call.listing_url, call.soup,
                                     call.div_class_mapping, call.label_mapping)
    /\ pc' = "return"
    /\ UNCHANGED <<argVars, collectVars, fsVars, schedVars, workVars, now, call>>

SpecDetails == DetailsInit /\ [][CallGetListingDetails]_vars

\* ------------------------------------ extract_label_value_pairs on its own
\* Paragraphs and divs a listing page may hold.
Para(text, spans) == [text |-> text, spans |-> spans]
Div(class, paragraphs) == [class |-> class, paragraphs |-> paragraphs]

SampleContainers ==
    { \* a known label and two value spans
      Div(ContainerClass, << Para(<<SP, "O", ":", NL>>, <<>>),
                             Para(<<"G", "E">>, << <<"G", SP>>, <<SP, "E">> >>) >>),
      \* the same label and a plain text value
      Div(ContainerClass, << Para(<<"O", ":">>, <<>>), Para(<<SP, "9", SP>>, <<>>) >>),
      \* another known label and one value span
      Div(ContainerClass, << Para(<<"K">>, <<>>), Para(<<"1", "2">>, << <<"1">> >>) >>),
      \* a single paragraph
      Div(ContainerClass, << Para(<<"O", ":">>, <<>>) >>),
      \* three paragraphs
      Div(ContainerClass, << Para(<<"K">>, <<>>), Para(<<"3">>, <<>>), Para(<<"4">>, <<>>) >>),
      \* a label that is not looked for
      Div(ContainerClass, << Para(<<"X">>, <<>>), Para(<<"5">>, <<>>) >>),
      \* a div of another class
      Div("css-other", << Para(<<"K">>, <<>>), Para(<<"6">>, <<>>) >>) }

LabelLists == { <<>>, << <<"O", ":">> >>, << <<"O", ":">>, <<"K">> >> }

LabelsInit ==
    /\ site = <<>>
    /\ num_pages = 0
    /\ num_workers = 1
    /\ Start
    /\ pc = "call"
    /\ \E cs \in SeqUpTo(SampleContainers, MaxContainers), ls \in LabelLists :
        call = [fn |-> "extract_label_value_pairs",
                soup |-> [ok |-> TRUE, elems |-> <<>>, containers |-> cs],
                labels_to_find |-> ls, container_class |-> ContainerClass]

CallExtractLabelValuePairs ==
    /\ pc = "call"
    /\ call.fn = "extract_label_value_pairs"
    /\ result' = extract_label_value_pairs(call.soup, call.labels_to_find,
                                           call.container_class)
    /\ pc' = "return"
    /\ UNCHANGED <<argVars, collectVars, fsVars, schedVars, workVars, now, call>>

SpecLabels == LabelsInit /\ [][CallExtractLabelValuePairs]_vars

\* ================================================================ claims
FileUrls == {Strip(urls_file[i]) : i \in DOMAIN urls_file}

\* C1 (as claimed): when a run ends without a filesystem error, the run
\* directory holds as many CSV files as chunks ended with a non-empty record
\* list, i.e. no two chunks wrote to the same file name.
C1_OneFilePerChunk ==
    (pc = "done" /\ ~fs_error) => Cardinality(DOMAIN files) = nonempty_chunks

\* C2: in every reachable state listings_scraped <= urls_processed.
C2_ScrapedAtMostProcessed == listings_scraped <= urls_processed

C2_Witness ==
    /\ pc = "pool"
    /\ urls_processed >= 2
    /\ listings_scraped = urls_processed
    /\ \E c \in DOMAIN tasks : Active(tasks[c])

\* C3: when the run completes, listings_scraped is the number of non-empty
\* records get_listing_details returned over all workers and batches, and
\* is at most total_urls.
C3_FinalCount ==
    pc = "done" => (listings_scraped = records_returned /\ listings_scraped <= total_urls)

C3_Witness ==
    /\ pc = "done"
    /\ Len(tasks) = 2
    /\ \A c \in DOMAIN tasks : tasks[c].scraped_listings # <<>>
    /\ listings_scraped = 3

\* C4: while scrape_apartments is outside the pool's with block (reading the
\* next batch from the file, or at the summary), every call of the previous
\* batch has ended, its CSV flush included; and no call of a batch is
\* running unless that batch is the current one.
C4_BatchesSequential ==
    /\ pc \in {"loop", "done"} =>
           \A c \in DOMAIN tasks : tasks[c].pc \in {"finished", "raised"}
    /\ (\E c \in DOMAIN tasks : Active(tasks[c])) =>
           (pc = "pool" /\ Len(batch_log) = batch_num + 1)

C4_Witness ==
    /\ pc = "loop"
    /\ batch_num = 1
    /\ total_batches = 2
    /\ DOMAIN files # {}

\* C5: a failed listing fetch never ends a call or the run (only a
\* filesystem error does), and at the end of the run every URL of the file
\* has been fetched, whatever fetches failed.
C5_FailureIsolated ==
    /\ ~fs_error => (pc # "crashed" /\ \A c \in DOMAIN tasks : tasks[c].pc # "raised")
    /\ pc = "done" => \A u \in FileUrls : fetch_count[u] >= 1

C5_Witness ==
    /\ pc = "done"
    /\ total_batches = 2
    /\ batch_log[1][1] \in failed_urls
    /\ batch_log[1][2] \notin failed_urls
    /\ \A u \in FileUrls : fetch_count[u] = 1
    /\ listings_scraped = 2

\* C6 (as claimed): once a filesystem error has been raised, the final
\* summary is not reached.
C6_FsErrorEndsRun == fs_error => pc # "done"

\* C7 (as claimed): a batch of L >= 1 URLs is cut into exactly num_workers
\* chunks of at most ceil(L / num_workers) URLs, a smaller chunk being
\* followed by empty chunks only.
C7_ExactlyNumWorkersChunks ==
    (pc = "return" /\ call.fn = "UrlChunks") =>
        LET per == Ceil(Len(call.batch), call.workers)
        IN  /\ Len(result) = call.workers
            /\ \A k \in DOMAIN result :
                /\ Len(result[k]) <= per
                /\ Len(result[k]) < per => \A j \in DOMAIN result : j > k => result[j] = <<>>

\* C7 (amended): a batch of L >= 1 URLs is cut into ceil(L / per) contiguous
\* chunks, per = ceil(L / num_workers); that is at most num_workers chunks;
\* every chunk but the last has per URLs and the last has from 1 to per; 23
\* URLs and 5 workers give the sizes 5, 5, 5, 5, 3.
C7_Chunking ==
    (pc = "return" /\ call.fn = "UrlChunks") =>
        LET len == Len(call.batch)
            per == Ceil(len, call.workers)
            n == Len(result)
        IN  /\ n = Ceil(len, per)
            /\ n <= call.workers
            /\ \A k \in 1..(n - 1) : Len(result[k]) = per
            /\ Len(result[n]) \in 1..per
            /\ Flatten(result) = call.batch
            /\ (len = 23 /\ call.workers = 5) =>
                   [k \in DOMAIN result |-> Len(result[k])] = <<5, 5, 5, 5, 3>>

C7_Witness ==
    /\ pc = "return"
    /\ call.fn = "UrlChunks"
    /\ Len(call.batch) = 6
    /\ call.workers = 4
    /\ [k \in DOMAIN result |-> Len(result[k])] = <<2, 2, 2>>

\* C8: batch k of the run is the lines k*batch_size ..
\* min((k+1)*batch_size, total_urls)-1 of the URL file (0-based), with
\* batch_size = num_workers * UrlsPerWorker and ceil(total_urls /
\* batch_size) batches; after the last batch urls_processed = total_urls.
C8_BatchLines ==
    LET size == num_workers * UrlsPerWorker
        count == Ceil(total_urls, size)
    IN  /\ Len(batch_log) <= count
        /\ \A k \in DOMAIN batch_log :
            LET first == (k - 1) * size
                last == Min(k * size, total_urls)
            IN  /\ Len(batch_log[k]) = last - first
                /\ \A i \in 1..(last - first) :
                       batch_log[k][i] \o <<NL>> = urls_file[first + i]
        /\ pc \in {"loop", "pool", "done"} =>
               /\ batch_size = size
               /\ total_batches = count
               /\ urls_processed = Min(Len(batch_log) * size, total_urls)
        /\ pc = "done" => (urls_processed = total_urls /\ Len(batch_log) = count)

C8_Witness ==
    /\ pc = "done"
    /\ Len(batch_log) = 2
    /\ Len(batch_log[1]) = 2
    /\ Len(batch_log[2]) = 1
    /\ urls_processed = 3

\* C9 (as claimed): whatever the two mappings, the record of a listing
\* whose fetch and parse succeeded has the fetched URL as its url field.
C9_UrlFieldIsFetchedUrl ==
    (pc = "return" /\ call.fn = "get_listing_details" /\ call.soup.ok) =>
        ("url" \in DOMAIN result /\ result["url"] = call.listing_url)

\* C10: the persisted URL file has one line per distinct URL the result
\* pages returned, each URL once and nothing else, and total_urls is that
\* number.
C10_UniqueUrlsPersisted ==
    pc = "setup" =>
        /\ FileUrls = returned_urls
        /\ Len(urls_file) = Cardinality(returned_urls)
        /\ \A i \in DOMAIN urls_file : \E u \in returned_urls : urls_file[i] = u \o <<NL>>
        /\ total_urls = Cardinality(returned_urls)

C10_Witness ==
    /\ pc = "setup"
    /\ Len(all_urls) = 4
    /\ all_urls[1] = all_urls[3]
    /\ Len(urls_file) = 3

\* C11 (as claimed): every step that changes urls_processed or
\* listings_scraped is taken while counter_lock is held.
C11_EveryMutationUnderLock ==
    [][(urls_processed' # urls_processed \/ listings_scraped' # listings_scraped)
           => counter_lock # 0]_vars

C11_Step ==
    /\ listings_scraped' # listings_scraped =>
           /\ counter_lock \in DOMAIN tasks
           /\ counter_lock' = counter_lock
           /\ tasks[counter_lock].pc = "store"
           /\ tasks' = [tasks EXCEPT ![counter_lock].pc = "release"]
    /\ urls_processed' # urls_processed =>
           /\ pc = "loop"
           /\ pc' = "pool"
           /\ counter_lock = 0
           /\ \A c \in DOMAIN tasks : ~Active(tasks[c])

\* C11 (amended): a call that is reading or writing listings_scraped (for
\* the increment or for the progress line) holds counter_lock, so at most
\* one call is doing so; listings_scraped changes only in the write step of
\* the call holding the lock; urls_processed changes only in the step of
\* scrape_apartments that reads a batch, without the lock, while no call is
\* running.
C11_CounterAccess ==
    /\ [](\A c \in DOMAIN tasks :
              tasks[c].pc \in {"load", "store", "release", "print"} => counter_lock = c)
    /\ [][C11_Step]_vars

C11_Witness ==
    \E c, d \in DOMAIN tasks :
        /\ c # d
        /\ tasks[c].pc = "store"
        /\ counter_lock = c
        /\ tasks[d].pc \in {"acquire", "report"}
        /\ urls_processed = 3

C12_FileComplete ==
    /\ Len(urls_file) = Len(unique_urls)
    /\ \A i \in DOMAIN urls_file : urls_file[i] = unique_urls[i] \o <<NL>>
    /\ Range(unique_urls) = returned_urls

\* C12: listing_urls.txt holds the complete unique URL list before the
\* first listing fetch is issued, and from the end of its writing on no
\* step (batch read, worker step) changes its content.
C12_UrlFileReadOnly ==
    /\ []((pc \in {"setup", "loop", "pool", "done"} \/ \E u \in AllUrls : fetch_count[u] > 0)
              => C12_FileComplete)
    /\ [][(pc \in {"setup", "loop", "pool", "done"}) => UNCHANGED urls_file]_vars

C12_Witness ==
    /\ pc = "pool"
    /\ batch_num = 1
    /\ \E c \in DOMAIN tasks : tasks[c].pc = "flush"
    /\ \A u \in AllUrls : fetch_count[u] = 1
    /\ Len(urls_file) = 3

\* The steps of one call as C13 wants them: a fetch that failed leaves the
\* record list alone and goes to the progress check; the progress check
\* leads to the sleep; only the sleep moves the call to its next URL.
C13_Step ==
    (pc = "pool" /\ pc' = "pool") =>
        \A c \in DOMAIN tasks :
            /\ (tasks[c].pc = "fetch" /\ tasks'[c].pc # "fetch" /\ failed_urls' # failed_urls) =>
                   /\ tasks'[c].scraped_listings = tasks[c].scraped_listings
                   /\ tasks'[c].pc = "report"
                   /\ records_returned' = records_returned
            /\ (tasks[c].pc = "fetch" /\ tasks'[c].pc # "fetch" /\ failed_urls' = failed_urls) =>
                   /\ Len(tasks'[c].scraped_listings) = Len(tasks[c].scraped_listings) + 1
                   /\ tasks'[c].pc = "acquire"
            /\ tasks[c].pc = "release" => tasks'[c].pc \in {"release", "report"}
            /\ tasks[c].pc = "report" => tasks'[c].pc \in {"report", "print", "sleep"}
            /\ tasks[c].pc = "print" => tasks'[c].pc \in {"print", "sleep"}
            /\ tasks'[c].idx # tasks[c].idx =>
                   (tasks[c].pc = "sleep" /\ tasks'[c].idx = tasks[c].idx + 1)
            /\ (tasks'[c].pc \in {"fetch", "flush"} /\ tasks[c].pc # tasks'[c].pc) =>
                   tasks[c].pc \in {"sleep", "queued"}

\* C13: a listing whose fetch or parse failed gives an empty record that
\* is not appended to the worker's list and is never counted in
\* listings_scraped, and the worker goes through the same sleep before its
\* next URL as after a successful listing.
C13_FailedListingDiscarded ==
    /\ [](/\ \A c \in DOMAIN tasks :
                \A i \in DOMAIN tasks[c].scraped_listings :
                    /\ tasks[c].scraped_listings[i] # <<>>
                    /\ tasks[c].scraped_listings[i]["url"] \notin failed_urls
          /\ listings_scraped <= records_returned)
    /\ [][C13_Step]_vars

C13_Witness ==
    \E c \in DOMAIN tasks :
        /\ tasks[c].pc = "sleep"
        /\ tasks[c].idx = 1
        /\ Len(url_chunks[c]) = 2
        /\ url_chunks[c][1] \in failed_urls
        /\ tasks[c].scraped_listings = <<>>
        /\ listings_scraped = 0

\* Keys of a mapping
Keys(mapping) == {mapping[i][1] : i \in DOMAIN mapping}

\* The selector has no element on the page / the label has no two-paragraph
\* block on the page.
SelectorMissing(soup, selector) == \A i \in DOMAIN soup.elems : soup.elems[i].class # selector
LabelMissing(soup, label) ==
    \A i \in DOMAIN soup.containers :
        ~(/\ soup.containers[i].class = ContainerClass
          /\ Len(soup.containers[i].paragraphs) = 2
          /\ Strip(soup.containers[i].paragraphs[1].text) = label)

\* C14: for a listing page that was fetched and parsed, the field names of
\* the record are exactly url, the keys of div_class_mapping and the keys of
\* label_mapping; a field whose selector or label is not on the page is
\* there with the value None.
C14_RecordFields ==
    (pc = "return" /\ call.fn = "get_listing_details" /\ call.soup.ok) =>
        /\ DOMAIN result =
               {"url"} \cup Keys(call.div_class_mapping) \cup Keys(call.label_mapping)
        /\ \A i \in DOMAIN call.label_mapping :
               LabelMissing(call.soup, call.label_mapping[i][2]) =>
                   result[call.label_mapping[i][1]] = None
        /\ \A i \in DOMAIN call.div_class_mapping :
               (/\ SelectorMissing(call.soup, call.div_class_mapping[i][2])
                /\ call.div_class_mapping[i][1] \notin Keys(call.label_mapping)) =>
                   result[call.div_class_mapping[i][1]] = None

C14_Witness ==
    /\ pc = "return"
    /\ call.fn = "get_listing_details"
    /\ call.soup = SamplePage
    /\ call.div_class_mapping = DIV_CLASS_MAPPING
    /\ call.label_mapping = LABEL_MAPPING
    /\ DOMAIN result = {"url", "title", "m2", "heating", "deposit"}
    /\ result["m2"] = None
    /\ result["deposit"] = None
    /\ result["title"] = <<"T">>

\* The containers that C15 says contribute, by position, and what each
\* contributes.
C15_Contributes(i) ==
    LET c == call.soup.containers[i]
    IN  /\ c.class = call.container_class
        /\ Len(c.paragraphs) = 2
        /\ \E k \in DOMAIN call.labels_to_find :
               Strip(c.paragraphs[1].text) = call.labels_to_find[k]

C15_Label(i) == Strip(call.soup.containers[i].paragraphs[1].text)

C15_Value(i) ==
    LET p == call.soup.containers[i].paragraphs[2]
    IN  IF Len(p.spans) = 0 THEN Strip(p.text)
        ELSE IF Len(p.spans) = 1 THEN Strip(p.spans[1])
        ELSE Strip(p.spans[1]) \o <<";", SP>> \o Strip(p.spans[2])

C16_Step ==
    /\ urls_processed' >= urls_processed
    /\ listings_scraped' >= listings_scraped
    /\ (pc = "loop" /\ pc' = "pool") =>
           urls_processed' = urls_processed + Len(batch_urls')
    /\ urls_processed' # urls_processed =>
           /\ pc = "loop" /\ pc' = "pool"
           /\ \A c \in DOMAIN tasks : tasks[c].pc \in {"finished", "raised"}
    /\ listings_scraped' # listings_scraped =>
           /\ listings_scraped' = listings_scraped + 1
           /\ \E c \in DOMAIN tasks :
                  /\ tasks[c].pc = "store"
                  /\ tasks[c].scraped_listings # <<>>
                  /\ tasks[c].scraped_listings[Len(tasks[c].scraped_listings)] # <<>>

\* C16: neither counter ever decreases or is reset; urls_processed changes
\* only in the main loop when a batch has been read and no worker runs,
\* by exactly the length of that batch; listings_scraped changes only by
\* +1, in a worker that has just appended a non-empty record.
C16_CountersMonotone ==
    [][C16_Step]_vars

C16_Witness ==
    /\ pc = "pool"
    /\ batch_num = 1
    /\ Len(batch_log) = 2
    /\ urls_processed = Len(batch_log[1]) + Len(batch_log[2])
    /\ Len(batch_log[1]) = 2
    /\ listings_scraped = 3

\* C17: the chunks of a batch, concatenated in order, are the batch (no
\* URL dropped or duplicated, every chunk non-empty); each chunk's call
\* fetches the URLs of its chunk in order, so no URL is fetched twice and,
\* when the run is over, every line of the URL file has been handed to
\* get_listing_details exactly once.
C17_ChunksPartitionBatch ==
    /\ pc \in {"pool", "loop", "done"} =>
           /\ Flatten(url_chunks) = batch_urls
           /\ \A c \in DOMAIN url_chunks : url_chunks[c] # <<>>
           /\ batch_log # <<>> => batch_urls = batch_log[Len(batch_log)]
    /\ \A u \in AllUrls : fetch_count[u] <= 1
    /\ pc = "pool" =>
           \A c \in DOMAIN tasks :
               /\ tasks[c].idx <= Len(url_chunks[c]) + 1
               /\ \A i \in DOMAIN url_chunks[c] :
                      (i < tasks[c].idx /\ tasks[c].pc # "queued") =>
                          fetch_count[url_chunks[c][i]] = 1
    /\ pc = "done" =>
           /\ Len(Flatten(batch_log)) = Len(urls_file)
           /\ \A i \in DOMAIN urls_file : Flatten(batch_log)[i] = Strip(urls_file[i])
           /\ \A u \in AllUrls : fetch_count[u] = IF u \in FileUrls THEN 1 ELSE 0

C17_Witness ==
    /\ pc = "done"
    /\ num_workers = 2
    /\ Len(url_chunks) = 2
    /\ Len(url_chunks[1]) = 2
    /\ Len(url_chunks[2]) = 1
    /\ Len(urls_file) = 3
    /\ \A u \in FileUrls : fetch_count[u] = 1

\* C18: a batch never has more chunks than the pool has threads, so a
\* chunk's call that has not started yet always finds a free thread: it
\* never has to wait for another call of the batch to finish.
C18_ChunksFitPool ==
    pc = "pool" =>
        /\ Len(url_chunks) <= num_workers
        /\ Len(tasks) = Len(url_chunks)
        /\ \A c \in DOMAIN tasks :
               tasks[c].pc = "queued" =>
                   Cardinality({d \in DOMAIN tasks :
                                   tasks[d].pc \notin {"queued", "finished", "raised"}})
                       < num_workers

C18_Witness ==
    /\ pc = "pool"
    /\ num_workers = 2
    /\ Len(url_chunks) = 2
    /\ tasks[1].pc = "sleep"
    /\ tasks[2].pc = "fetch"
    /\ Len(batch_urls) = 3

\* C19 as stated: under fair scheduling every run reaches the final summary.
C19_AlwaysReachesSummary ==
    <>(pc = "done")

\* C19, amended: under fair scheduling every run ends, at the final
\* summary or with the exception of os.makedirs or of the writing of the
\* URL file, the only places where it can stop early; once the URL file
\* is written the final summary is reached, whatever the fetches and the
\* CSV writes do. With no collected URL the run has no batch, no worker
\* call, no fetch and no CSV file.
C19_RunEnds ==
    /\ <>(pc \in {"done", "crashed"})
    /\ (pc = "setup") ~> (pc = "done")
    /\ [](pc = "crashed" => (fs_error /\ batch_log = <<>> /\ tasks = <<>>))
    /\ []((pc \in {"loop", "pool", "done"} /\ Len(unique_urls) = 0) =>
              /\ pc # "pool"
              /\ total_batches = 0
              /\ batch_log = <<>>
              /\ tasks = <<>>
              /\ DOMAIN files = {}
              /\ \A u \in AllUrls : fetch_count[u] = 0)

C19_Witness ==
    /\ pc = "done"
    /\ Len(unique_urls) = 0
    /\ num_workers = 2
    /\ total_batches = 0
    /\ tasks = <<>>
    /\ DOMAIN files = {}

\* The rows of the CSV files of the given names, all together.
RECURSIVE C20_Rows(_)
C20_Rows(names) ==
    IF names = {} THEN 0
    ELSE LET n == CHOOSE x \in names : TRUE
         IN  Len(files[n]) + C20_Rows(names \ {n})

\* C20: when the run is over and no filesystem call has failed, the CSV
\* files of the run directory hold as many rows as listings_scraped counts.
C20_RowsEqualScraped ==
    (pc = "done" /\ ~fs_error) => C20_Rows(DOMAIN files) = listings_scraped

====
